---- MODULE Spec2Model ----
(***************************************************************************)
(* A model of analyze_timing.py: the timing-file parser, the per-experiment*)
(* aggregation and the walk / report pipeline of main().                   *)
(*                                                                         *)
(* Numbers.  A time in milliseconds is held as an integer count of         *)
(* 1/NsPerMs ms (one nanosecond), so sec*1000 + nsec/1_000_000 is the      *)
(* integer sec*1000*NsPerMs + nsec and no fraction is lost.  The standard  *)
(* deviation is held by its square, a fraction num/den, or as NaN.         *)
(* The rounding of Python's binary64 floats is modelled separately, in     *)
(* the fl_* operators and SpecFloat, with FloatBits-bit significands.      *)
(***************************************************************************)
EXTENDS Integers, Sequences, FiniteSets, TLC

VARIABLES
  pc,            \* where the modelled run stands
  content,       \* parse_timing_file: the text read from the file
  time_ms,       \* parse_timing_file: what it returned
  exp_dir,       \* analyze_experiment: the timing-*.txt files, in glob order
  idx,           \* analyze_experiment: files of exp_dir already read
  times_ms,      \* analyze_experiment: the list being built
  stats,         \* analyze_experiment: what it returned
  reordered,     \* SpecFloat: the files of exp_dir in another glob order
  stats_reordered, \* SpecFloat: what analyze_experiment returns for it
  n_groups,      \* main: entries of experiment-results/ walked so far
  n_exps,        \* main: entries of the current group directory walked so far
  exp_group_name,  \* main: the group directory being walked
  all_experiments, \* main: {experiment_group: {exp_name: stats}}
  outputs,       \* the files of analysis-results/ written, in order
  individual,    \* what was written to individual_experiment_stats.txt
  spread_data,   \* the series given to the first boxplot
  std_data,      \* the series given to the second boxplot
  labels,        \* the box plots' labels
  summary,       \* what was written to summary_stats.txt
  raised,        \* the exception that ended the run, "" if none
  walked         \* the experiment directories met, each with the number of
                 \* its timing files that hold both fields

\* parse_timing_file's and analyze_experiment's own state
unitvars == <<content, time_ms, exp_dir, idx, times_ms, stats, reordered,
              stats_reordered>>
\* main's state
mainvars == <<n_groups, n_exps, exp_group_name, all_experiments, outputs,
              individual, spread_data, std_data, labels, summary, raised, walked>>
vars == <<pc, unitvars, mainvars>>

(* ------------------------------ bounds --------------------------------- *)
\* lines per timing file (SpecParse)
MaxLines == 2
\* timing-*.txt files per experiment directory (SpecExp, SpecFloat)
MaxFiles == 3
\* entries of experiment-results/ (Spec)
MaxGroups == 2
\* entries of one group directory (Spec)
MaxExps == 2
\* bits of a float's significand (SpecFloat)
FloatBits == 5

(* --------------------------- program constants ------------------------- *)
\* time_ms = sec * 1000 + ...
MsPerSec == 1000
\* ... + nsec / 1_000_000
NsPerMs == 1000000

\* Python's None: an optional value is <<>> (None) or <<v>>.
None == <<>>
Some(v) == <<v>>
\* IEEE nan and inf, as values of the shape np_std returns.
NaN == [nan |-> TRUE, num |-> 0, den |-> 0]
Inf == [nan |-> FALSE, num |-> 1, den |-> 0]

(* ------------------------- timing file contents ------------------------ *)
\* A file is a sequence of lines "key=val"; val is a sequence of characters.
DigitChars == {"0", "1", "2", "3", "4", "5", "6", "7", "8", "9"}

DigitValue(c) ==
  CASE c = "0" -> 0 [] c = "1" -> 1 [] c = "2" -> 2 [] c = "3" -> 3
    [] c = "4" -> 4 [] c = "5" -> 5 [] c = "6" -> 6 [] c = "7" -> 7
    [] c = "8" -> 8 [] c = "9" -> 9

\* The longest prefix of val made of digits: what (\d+) captures, greedy.
RECURSIVE LeadingDigits(_)
LeadingDigits(val) ==
  IF val = <<>> \/ Head(val) \notin DigitChars THEN <<>>
  ELSE <<Head(val)>> \o LeadingDigits(Tail(val))

\* re.search(key + r'=(\d+)', content): the leftmost match, scanning the
\* file from its start; a line "key=" followed by no digit does not match and
\* the search goes on.  The result is group(1), never empty, or None.
RECURSIVE re_search(_, _)
re_search(key, text) ==
  IF text = <<>> THEN None
  ELSE IF Head(text).key = key /\ LeadingDigits(Head(text).val) # <<>>
       THEN LeadingDigits(Head(text).val)
       ELSE re_search(key, Tail(text))

\* int(group): the decimal value of a digit string, most significant first.
RECURSIVE int(_)
int(ds) ==
  IF ds = <<>> THEN 0
  ELSE int(SubSeq(ds, 1, Len(ds) - 1)) * 10 + DigitValue(ds[Len(ds)])

\* Mutant of time_ms_of: the nanoseconds divided by 1_000 instead of 1_000_000.
time_ms_of_micro(sec, nsec) == (sec * MsPerSec) * NsPerMs + nsec * 1000

\* time_ms = sec * 1000 + nsec / 1_000_000, in units of 1/NsPerMs ms.
time_ms_of(sec, nsec) == (sec * MsPerSec) * NsPerMs + nsec

\* Mutant of parse_timing_file: "or" for "and", a missing field read as 0.
parse_timing_file_or(text) ==
  LET sec_match == re_search("start_time_sec", text)
      nsec_match == re_search("start_time_nsec", text)
  IN IF sec_match # None \/ nsec_match # None
     THEN Some(time_ms_of(int(sec_match), int(nsec_match)))
     ELSE None

parse_timing_file(text) ==
  LET sec_match == re_search("start_time_sec", text)
      nsec_match == re_search("start_time_nsec", text)
  IN IF sec_match # None /\ nsec_match # None
     THEN Some(time_ms_of(int(sec_match), int(nsec_match)))
     ELSE None

(* ----------------------------- numpy helpers --------------------------- *)
\* Mutant of np_min: the first element instead of the smallest.
np_min_first(xs) == xs[1]

RECURSIVE np_min(_)
np_min(xs) ==
  IF Len(xs) = 1 THEN xs[1]
  ELSE LET m == np_min(Tail(xs)) IN IF xs[1] < m THEN xs[1] ELSE m

\* Mutant of np_max: the last element instead of the largest.
np_max_last(xs) == xs[Len(xs)]

RECURSIVE np_max(_)
np_max(xs) ==
  IF Len(xs) = 1 THEN xs[1]
  ELSE LET m == np_max(Tail(xs)) IN IF xs[1] > m THEN xs[1] ELSE m

RECURSIVE umr_sum(_)
umr_sum(xs) == IF xs = <<>> THEN 0 ELSE xs[1] + umr_sum(Tail(xs))

RECURSIVE GCD(_, _)
GCD(a, b) == IF b = 0 THEN a ELSE GCD(b, a % b)

\* A fraction in lowest terms.
Frac(num, den) ==
  LET g == GCD(num, den)
  IN [nan |-> FALSE, num |-> num \div g, den |-> den \div g]

\* Mutant of np_std: ddof ignored, the population standard deviation.
np_std_population(a, ddof) ==
  LET n == Len(a)
      total == umr_sum(a)
      x == [i \in 1..n |-> (n * a[i] - total) * (n * a[i] - total)]
  IN Frac(umr_sum(x), n * n * n)

\* np.std(a, ddof): numpy's _var followed by a square root.
\*   arrmean = umr_sum(arr) / n ; x = arr - arrmean ; x = x * x ;
\*   ret = umr_sum(x) / max(n - ddof, 0) ; sqrt(ret)
\* The deviations are held times n (n*x[i] - sum), so their squares sum to
\* n*n times umr_sum(x).  The result is the SQUARE of the standard deviation
\* as a fraction; a zero divisor gives 0/0 = nan (sum of squares 0) or inf.
np_std(a, ddof) ==
  LET n == Len(a)
      total == umr_sum(a)
      x == [i \in 1..n |-> (n * a[i] - total) * (n * a[i] - total)]
      ret == umr_sum(x)
      rcount == IF n - ddof > 0 THEN n - ddof ELSE 0
  IN IF rcount = 0 THEN (IF ret = 0 THEN NaN ELSE Inf)
     ELSE Frac(ret, n * n * rcount)

(* --------------------------- analyze_experiment ------------------------ *)
\* One turn of the loop over exp_dir.glob("timing-*.txt"): parse the file and
\* append its time unless the parser returned None.
append_time(times, timing_file) ==
  LET t == parse_timing_file(timing_file)
  IN IF t # None THEN Append(times, t[1]) ELSE times

\* Mutant of experiment_stats: no "if not times_ms: return None".
experiment_stats_noguard(times) ==
  Some([times_ms |-> times,
        max_spread |-> IF times = <<>> THEN 0 ELSE np_max(times) - np_min(times),
        std |-> np_std(times, 1),
        min |-> IF times = <<>> THEN 0 ELSE np_min(times),
        max |-> IF times = <<>> THEN 0 ELSE np_max(times),
        count |-> Len(times)])

\* What analyze_experiment returns once the loop is over.
experiment_stats(times) ==
  IF times = <<>> THEN None
  ELSE Some([times_ms |-> times,
             max_spread |-> np_max(times) - np_min(times),
             std |-> np_std(times, 1),
             min |-> np_min(times),
             max |-> np_max(times),
             count |-> Len(times)])

RECURSIVE collect_times(_, _)
collect_times(times, files) ==
  IF files = <<>> THEN times
  ELSE collect_times(append_time(times, Head(files)), Tail(files))

\* analyze_experiment(exp_dir), the files of exp_dir given in glob order.
analyze_experiment(files) == experiment_stats(collect_times(<<>>, files))

(* ---------------------------- bounded inputs --------------------------- *)
\* All sequences over S of length at most n.
RECURSIVE SeqsUpTo(_, _)
SeqsUpTo(S, n) ==
  IF n = 0 THEN {<<>>}
  ELSE LET shorter == SeqsUpTo(S, n - 1)
       IN shorter \cup {Append(q, x) : q \in {r \in shorter : Len(r) = n - 1}, x \in S}

Line(key, val) == [key |-> key, val |-> val]

\* Lines a timing file may hold: the two fields with digits (leading zeros,
\* trailing text), with no digit after the "=", and an unrelated line.
SecLines ==
  {Line("start_time_sec", v) : v \in {<<"0">>, <<"1">>, <<"0", "1">>, <<"x">>, <<>>}}
NsecLines ==
  {Line("start_time_nsec", v) :
     v \in {<<"5">>, <<"5", "0", "0", "0", "0", "0">>, <<"0", "7">>,
            <<"2", "5", "m", "s">>, <<"-", "3">>}}
OtherLines == {Line("pod_name", <<"7">>)}
Lines == SecLines \cup NsecLines \cup OtherLines

\* The file contents parse_timing_file is tried on.
Contents == SeqsUpTo(Lines, MaxLines)

\* What the claims call a field: a line "key=" directly followed by a digit.
IsField(ln, key) ==
  ln.key = key /\ ln.val # <<>> /\ ln.val[1] \in DigitChars

HasField(text, key) == \E i \in 1..Len(text) : IsField(text[i], key)

HasBothFields(text) ==
  HasField(text, "start_time_sec") /\ HasField(text, "start_time_nsec")

\* The number of files of an experiment directory that hold both fields.
BothFieldCount(files) ==
  Cardinality({i \in 1..Len(files) : HasBothFields(files[i])})

(* ------------------ SpecParse: parse_timing_file alone ----------------- *)
Idle == <<>>

\* No second glob order is being compared.
FloatIdle == reordered = Idle /\ stats_reordered = None

\* main has not run.
MainIdle ==
  /\ n_groups = 0 /\ n_exps = 0 /\ exp_group_name = 0
  /\ all_experiments = <<>> /\ outputs = <<>> /\ individual = <<>>
  /\ spread_data = <<>> /\ std_data = <<>> /\ labels = <<>>
  /\ summary = <<>> /\ raised = "" /\ walked = {}

InitParse ==
  /\ pc = "open"
  /\ content \in Contents
  /\ time_ms = None
  /\ exp_dir = Idle /\ idx = 0 /\ times_ms = Idle /\ stats = None
  /\ FloatIdle
  /\ MainIdle

\* parse_timing_file(file_path): read, search the two fields, convert.
ParseTimingFile ==
  /\ pc = "open"
  /\ time_ms' = parse_timing_file(content)
  /\ pc' = "parsed"
  /\ UNCHANGED <<content, exp_dir, idx, times_ms, stats, reordered,
                 stats_reordered, mainvars>>

NextParse == ParseTimingFile

SpecParse == InitParse /\ [][NextParse]_vars

(* ------------------ SpecExp: analyze_experiment alone ------------------ *)
TimingFile(sec, nsec) ==
  <<Line("start_time_sec", sec), Line("start_time_nsec", nsec)>>

\* The timing files an experiment directory may hold: three start times, a
\* file without the nsec field, one without the sec field, an empty one.
ExpFiles ==
  {TimingFile(<<"0">>, <<"5">>), TimingFile(<<"0">>, <<"9">>),
   TimingFile(<<"0">>, <<"4", "0">>),
   <<Line("start_time_sec", <<"0">>)>>,
   <<Line("start_time_nsec", <<"5">>)>>,
   <<>>}

ExpDirs == SeqsUpTo(ExpFiles, MaxFiles)

InitExp ==
  /\ pc = "glob"
  /\ exp_dir \in ExpDirs
  /\ idx = 0
  /\ times_ms = <<>>
  /\ stats = None
  /\ content = Idle /\ time_ms = None
  /\ FloatIdle
  /\ MainIdle

\* One turn of "for timing_file in exp_dir.glob(...)".
ReadTimingFile ==
  /\ pc = "glob"
  /\ idx < Len(exp_dir)
  /\ idx' = idx + 1
  /\ times_ms' = append_time(times_ms, exp_dir[idx + 1])
  /\ UNCHANGED <<pc, content, time_ms, exp_dir, stats, reordered,
                 stats_reordered, mainvars>>

\* The loop is over: "if not times_ms: return None", else the stats dict.
ReturnStats ==
  /\ pc = "glob"
  /\ idx = Len(exp_dir)
  /\ stats' = experiment_stats(times_ms)
  /\ pc' = "returned"
  /\ UNCHANGED <<content, time_ms, exp_dir, idx, times_ms, reordered,
                 stats_reordered, mainvars>>

NextExp == ReadTimingFile \/ ReturnStats

SpecExp == InitExp /\ [][NextExp]_vars

(* ------------------------------- main() -------------------------------- *)
\* sorted(...) of a set of names.
RECURSIVE sorted(_)
sorted(S) ==
  IF S = {} THEN <<>>
  ELSE LET m == CHOOSE x \in S : \A y \in S : x <= y
       IN <<m>> \o sorted(S \ {m})

\* d[k] = v on a dict.
setitem(d, k, v) == [j \in DOMAIN d \cup {k} |-> IF j = k THEN v ELSE d[j]]

\* Reading all_experiments[g], a defaultdict(dict): a missing key is created
\* with an empty dict.
getitem_default(all, g) == IF g \in DOMAIN all THEN all ELSE setitem(all, g, <<>>)

\* d.values(): insertion order, which is ascending name order because the
\* walk inserts in sorted order.
values(d) == LET ks == sorted(DOMAIN d) IN [i \in 1..Len(ks) |-> d[ks[i]]]

\* Mutant of record_experiment: all_experiments[exp_group_name] is read
\* before stats is tested, which creates the group's key.
record_experiment_touch(all, g, e, st) ==
  LET withg == getitem_default(all, g)
  IN IF st # None THEN setitem(withg, g, setitem(withg[g], e, st[1])) ELSE withg

\* "if stats: all_experiments[exp_group_name][exp_name] = stats"
record_experiment(all, g, e, st) ==
  IF st # None
  THEN LET withg == getitem_default(all, g)
       IN setitem(withg, g, setitem(withg[g], e, st[1]))
  ELSE all

\* The text written for one group to individual_experiment_stats.txt.
individual_group(all, g) ==
  LET es == sorted(DOMAIN all[g])
  IN [group |-> g,
      exps |-> [j \in 1..Len(es) |->
                  [exp |-> es[j],
                   count |-> all[g][es[j]].count,
                   min |-> all[g][es[j]].min,
                   max |-> all[g][es[j]].max,
                   max_spread |-> all[g][es[j]].max_spread,
                   std |-> all[g][es[j]].std]]]

\* [stats['max_spread'] for stats in all_experiments[g].values()]
spreads_of(all, g) ==
  LET vs == values(all[g]) IN [j \in 1..Len(vs) |-> vs[j].max_spread]

\* [stats['std'] for stats in all_experiments[g].values()]
stds_of(all, g) ==
  LET vs == values(all[g]) IN [j \in 1..Len(vs) |-> vs[j].std]

\* ax.boxplot(x, labels=labels): matplotlib reshapes an empty x into ONE
\* empty dataset and raises ValueError ("Dimensions of labels and X must be
\* compatible") unless there are as many labels as datasets.
boxplot_accepts(x, lab) == Len(lab) = (IF x = <<>> THEN 1 ELSE Len(x))

\* np.sort, by insertion.
RECURSIVE np_sort(_)
np_sort(xs) ==
  IF xs = <<>> THEN <<>>
  ELSE LET rest == np_sort(Tail(xs))
           k == Cardinality({i \in 1..Len(rest) : rest[i] < xs[1]})
       IN SubSeq(rest, 1, k) \o <<xs[1]>> \o SubSeq(rest, k + 1, Len(rest))

np_mean(xs) == Frac(umr_sum(xs), Len(xs))

np_median(xs) ==
  LET srt == np_sort(xs)
      n == Len(xs)
  IN IF n % 2 = 1 THEN Frac(srt[(n + 1) \div 2], 1)
     ELSE Frac(srt[n \div 2] + srt[n \div 2 + 1], 2)

\* Whether a list of floats holds a nan: np.mean, np.median, np.min and
\* np.max of such a list are nan.
has_nan(xs) == \E i \in 1..Len(xs) : xs[i].nan

frac_le(a, b) == a.num * b.den <= b.num * a.den

\* np.min / np.max of a list of stds (held by their squares).
std_min(xs) ==
  IF has_nan(xs) THEN NaN
  ELSE xs[CHOOSE i \in 1..Len(xs) : \A j \in 1..Len(xs) : frac_le(xs[i], xs[j])]

std_max(xs) ==
  IF has_nan(xs) THEN NaN
  ELSE xs[CHOOSE i \in 1..Len(xs) : \A j \in 1..Len(xs) : frac_le(xs[j], xs[i])]

\* The text written for one group to summary_stats.txt.  The mean and the
\* median of the stds are sums of square roots and are not held; std_nan
\* tells whether they are nan.
summary_group(all, g) ==
  LET spreads == spreads_of(all, g)
      stds == stds_of(all, g)
  IN [group |-> g,
      n |-> Len(spreads),
      spread_mean |-> np_mean(spreads),
      spread_median |-> np_median(spreads),
      spread_min |-> np_min(spreads),
      spread_max |-> np_max(spreads),
      std_nan |-> has_nan(stds),
      std_min |-> std_min(stds),
      std_max |-> std_max(stds)]

\* The experiment directories the walk may meet: no timing file, one file
\* without the nsec field, one pod, two pods and a file without the sec field.
WalkDirs ==
  {<<>>,
   <<<<Line("start_time_sec", <<"0">>)>>>>,
   <<TimingFile(<<"0">>, <<"5">>)>>,
   <<TimingFile(<<"0">>, <<"9">>), <<Line("start_time_nsec", <<"5">>)>>,
     TimingFile(<<"0">>, <<"4", "0">>)>>}

InitMain ==
  /\ pc = "start"
  /\ MainIdle
  /\ content = Idle /\ time_ms = None
  /\ exp_dir = Idle /\ idx = 0 /\ times_ms = Idle /\ stats = None
  /\ FloatIdle

\* sorted(RESULTS_DIR.iterdir()): FileNotFoundError when experiment-results
\* does not exist.
ListResultsDir ==
  /\ pc = "start"
  /\ \E exists \in BOOLEAN :
       IF exists THEN pc' = "groups" /\ raised' = raised
       ELSE pc' = "error" /\ raised' = "FileNotFoundError"
  /\ UNCHANGED <<unitvars, n_groups, n_exps, exp_group_name, all_experiments,
                 outputs, individual, spread_data, std_data, labels, summary,
                 walked>>

\* The next entry of experiment-results/, in sorted order; an entry that is
\* not a directory is passed over.
NextGroupEntry ==
  /\ pc = "groups"
  /\ n_groups < MaxGroups
  /\ n_groups' = n_groups + 1
  /\ \E is_dir \in BOOLEAN :
       IF is_dir
       THEN pc' = "exps" /\ exp_group_name' = n_groups + 1 /\ n_exps' = 0
       ELSE UNCHANGED <<pc, exp_group_name, n_exps>>
  /\ UNCHANGED <<unitvars, all_experiments, outputs, individual, spread_data,
                 std_data, labels, summary, raised, walked>>

\* The next entry of the group directory, in sorted order: passed over unless
\* it is a directory named exp*, else analysed and recorded if stats is truthy.
NextExpEntry ==
  /\ pc = "exps"
  /\ n_exps < MaxExps
  /\ n_exps' = n_exps + 1
  /\ \E is_exp_dir \in BOOLEAN, files \in WalkDirs :
       IF is_exp_dir
       THEN /\ all_experiments' =
                 record_experiment(all_experiments, exp_group_name, n_exps + 1,
                                   analyze_experiment(files))
            /\ walked' = walked \cup
                 {[group |-> exp_group_name, exp |-> n_exps + 1,
                   parseable |-> BothFieldCount(files)]}
       ELSE UNCHANGED <<all_experiments, walked>>
  /\ UNCHANGED <<pc, unitvars, n_groups, exp_group_name, outputs, individual,
                 spread_data, std_data, labels, summary, raised>>

\* The group directory has no further entry.
EndGroup ==
  /\ pc = "exps"
  /\ pc' = "groups"
  /\ UNCHANGED <<unitvars, mainvars>>

\* experiment-results/ has no further entry.
EndWalk ==
  /\ pc = "groups"
  /\ pc' = "individual"
  /\ UNCHANGED <<unitvars, mainvars>>

\* 1. individual_experiment_stats.txt
WriteIndividual ==
  /\ pc = "individual"
  /\ LET gs == sorted(DOMAIN all_experiments)
     IN individual' = [i \in 1..Len(gs) |-> individual_group(all_experiments, gs[i])]
  /\ outputs' = Append(outputs, "individual_experiment_stats.txt")
  /\ pc' = "spread_plot"
  /\ UNCHANGED <<unitvars, n_groups, n_exps, exp_group_name, all_experiments,
                 spread_data, std_data, labels, summary, raised, walked>>

\* 2-1. max_spread_boxplot.png
PlotSpread ==
  /\ pc = "spread_plot"
  /\ LET gs == sorted(DOMAIN all_experiments)
         data == [i \in 1..Len(gs) |-> spreads_of(all_experiments, gs[i])]
     IN /\ spread_data' = data
        /\ labels' = gs
        /\ IF boxplot_accepts(data, gs)
           THEN /\ outputs' = Append(outputs, "max_spread_boxplot.png")
                /\ pc' = "std_plot"
                /\ raised' = raised
           ELSE /\ pc' = "error"
                /\ raised' = "ValueError"
                /\ outputs' = outputs
  /\ UNCHANGED <<unitvars, n_groups, n_exps, exp_group_name, all_experiments,
                 individual, std_data, summary, walked>>

\* 2-2. std_boxplot.png, with the labels of the first plot
PlotStd ==
  /\ pc = "std_plot"
  /\ LET gs == sorted(DOMAIN all_experiments)
         data == [i \in 1..Len(gs) |-> stds_of(all_experiments, gs[i])]
     IN /\ std_data' = data
        /\ IF boxplot_accepts(data, labels)
           THEN /\ outputs' = Append(outputs, "std_boxplot.png")
                /\ pc' = "summary"
                /\ raised' = raised
           ELSE /\ pc' = "error"
                /\ raised' = "ValueError"
                /\ outputs' = outputs
  /\ UNCHANGED <<unitvars, n_groups, n_exps, exp_group_name, all_experiments,
                 individual, spread_data, labels, summary, walked>>

\* 3. summary_stats.txt.  The file is opened first; np.min of an empty list
\* raises ValueError, after the groups before it were written.
WriteSummary ==
  /\ pc = "summary"
  /\ outputs' = Append(outputs, "summary_stats.txt")
  /\ LET gs == sorted(DOMAIN all_experiments)
         empty == {i \in 1..Len(gs) : DOMAIN all_experiments[gs[i]] = {}}
         upto == IF empty = {} THEN Len(gs)
                 ELSE (CHOOSE i \in empty : \A j \in empty : i <= j) - 1
     IN /\ summary' = [i \in 1..upto |-> summary_group(all_experiments, gs[i])]
        /\ IF empty = {} THEN pc' = "done" /\ raised' = raised
           ELSE pc' = "error" /\ raised' = "ValueError"
  /\ UNCHANGED <<unitvars, n_groups, n_exps, exp_group_name, all_experiments,
                 individual, spread_data, std_data, labels, walked>>

Next ==
  \/ ListResultsDir
  \/ NextGroupEntry
  \/ NextExpEntry
  \/ EndGroup
  \/ EndWalk
  \/ WriteIndividual
  \/ PlotSpread
  \/ PlotStd
  \/ WriteSummary

Spec == InitMain /\ [][Next]_vars

(* -------- SpecFloat: analyze_experiment in floating point -------------- *)
\* Python floats are binary64: 53-bit significands, round to nearest, ties
\* to even.  Here the significand has FloatBits bits and the smallest unit in
\* the last place is one time unit, so the representable numbers are the
\* integers m * 2^e with |m| < 2^FloatBits, e >= 0.
RECURSIVE Pow2(_)
Pow2(n) == IF n = 0 THEN 1 ELSE 2 * Pow2(n - 1)

\* The spacing of the representable numbers around v >= 0.
RECURSIVE ulp_from(_, _)
ulp_from(v, g) == IF v < Pow2(FloatBits) * g THEN g ELSE ulp_from(v, 2 * g)

\* p/q (q > 0) rounded to the nearest representable number, ties to even.
fl_round(p, q) ==
  LET a == IF p < 0 THEN -p ELSE p
      g == ulp_from(a \div q, 1)
      k == a \div (q * g)
      r == a - k * q * g
      up == 2 * r > q * g \/ (2 * r = q * g /\ k % 2 = 1)
      m == IF up THEN (k + 1) * g ELSE k * g
  IN IF p < 0 THEN -m ELSE m

fl_add(a, b) == fl_round(a + b, 1)
fl_sub(a, b) == fl_round(a - b, 1)
fl_mul(a, b) == fl_round(a * b, 1)

\* The largest k with (k*g)^2 <= v.
RECURSIVE sqrt_floor(_, _, _)
sqrt_floor(v, g, k) ==
  IF (k + 1) * g * (k + 1) * g <= v THEN sqrt_floor(v, g, k + 1) ELSE k

\* sqrt(v), v >= 0, rounded to the nearest representable number.
fl_sqrt(v) ==
  LET g == ulp_from(sqrt_floor(v, 1, 0), 1)
      k == sqrt_floor(v, g, 0)
  IN IF (2 * k + 1) * (2 * k + 1) * g * g < 4 * v THEN (k + 1) * g ELSE k * g

\* umr_sum over a 1-d array of fewer than 8 floats: a left-to-right loop.
RECURSIVE fl_sum_from(_, _)
fl_sum_from(acc, xs) ==
  IF xs = <<>> THEN acc ELSE fl_sum_from(fl_add(acc, xs[1]), Tail(xs))

FlNaN == [nan |-> TRUE, inf |-> FALSE, val |-> 0]
FlInf == [nan |-> FALSE, inf |-> TRUE, val |-> 0]
FlNum(v) == [nan |-> FALSE, inf |-> FALSE, val |-> v]

\* np.std(a, ddof) as numpy computes it, every operation rounded:
\*   arrmean = umr_sum(arr) / n ; x = arr - arrmean ; x = x * x ;
\*   ret = umr_sum(x) / max(n - ddof, 0) ; sqrt(ret)
np_std_fl(a, ddof) ==
  LET n == Len(a)
      arrmean == fl_round(fl_sum_from(0, a), n)
      x == [i \in 1..n |-> fl_mul(fl_sub(a[i], arrmean), fl_sub(a[i], arrmean))]
      ret == fl_sum_from(0, x)
      rcount == IF n - ddof > 0 THEN n - ddof ELSE 0
  IN IF rcount = 0 THEN (IF ret = 0 THEN FlNaN ELSE FlInf)
     ELSE FlNum(fl_sqrt(fl_round(ret, rcount)))

\* analyze_experiment with the float operations rounded.  The parsed times
\* are rounded as the float sum sec * 1000 + nsec / 1_000_000 is.
analyze_experiment_fl(files) ==
  LET parsed == collect_times(<<>>, files)
      times == [i \in 1..Len(parsed) |-> fl_round(parsed[i], 1)]
  IN IF times = <<>> THEN None
     ELSE Some([times_ms |-> times,
                max_spread |-> fl_sub(np_max(times), np_min(times)),
                std |-> np_std_fl(times, 1),
                min |-> np_min(times),
                max |-> np_max(times),
                count |-> Len(times)])

\* The timing files of SpecFloat: four start times and a file with no field.
\* Their sums need more than FloatBits bits, as the sums of epoch-scale
\* millisecond times with nanosecond fractions need more than 53.
FloatFiles ==
  {TimingFile(<<"0">>, <<"3">>), TimingFile(<<"0">>, <<"7">>),
   TimingFile(<<"0">>, <<"3", "0">>), TimingFile(<<"0">>, <<"3", "1">>),
   <<Line("pod_name", <<"7">>)>>}

\* The orders in which an unsorted glob may give the files of a directory.
GlobOrders(files) ==
  {[i \in 1..Len(files) |-> files[p[i]]] : p \in Permutations(1..Len(files))}

InitFloat ==
  /\ pc = "glob"
  /\ exp_dir \in SeqsUpTo(FloatFiles, MaxFiles)
  /\ reordered \in GlobOrders(exp_dir)
  /\ stats = None /\ stats_reordered = None
  /\ content = Idle /\ time_ms = None /\ idx = 0 /\ times_ms = Idle
  /\ MainIdle

\* analyze_experiment(exp_dir), the glob giving the files as in exp_dir.
AnalyzeGlobOrder ==
  /\ pc = "glob"
  /\ stats' = analyze_experiment_fl(exp_dir)
  /\ pc' = "again"
  /\ UNCHANGED <<content, time_ms, exp_dir, idx, times_ms, reordered,
                 stats_reordered, mainvars>>

\* analyze_experiment(exp_dir) once more, the glob giving them as in reordered.
AnalyzeReordered ==
  /\ pc = "again"
  /\ stats_reordered' = analyze_experiment_fl(reordered)
  /\ pc' = "returned"
  /\ UNCHANGED <<content, time_ms, exp_dir, idx, times_ms, reordered, stats,
                 mainvars>>

NextFloat == AnalyzeGlobOrder \/ AnalyzeReordered

SpecFloat == InitFloat /\ [][NextFloat]_vars

(* ------------------------------- claims -------------------------------- *)
RECURSIVE Pow10(_)
Pow10(n) == IF n = 0 THEN 1 ELSE 10 * Pow10(n - 1)

\* The integer a field shows: the digits after "=" of its first occurrence,
\* each weighted by its decimal place.
FieldInt(text, key) ==
  LET i == CHOOSE k \in 1..Len(text) :
             /\ IsField(text[k], key)
             /\ \A j \in 1..(k - 1) : ~IsField(text[j], key)
      val == text[i].val
      n == CHOOSE k \in 1..Len(val) :
             /\ \A j \in 1..k : val[j] \in DigitChars
             /\ (k = Len(val) \/ val[k + 1] \notin DigitChars)
      place(j) == DigitValue(val[j]) * Pow10(n - j)
      sum[j \in 0..n] == IF j = 0 THEN 0 ELSE sum[j - 1] + place(j)
  IN sum[n]

\* C1: for a file holding both a start_time_sec=<digits> and a
\* start_time_nsec=<digits> field, parse_timing_file returns
\* sec*1000 + nsec/1e6 ms: its whole milliseconds are sec*1000 plus the whole
\* milliseconds of nsec, its fraction is the rest of nsec.
C1_ParsedMs ==
  (pc = "parsed" /\ HasBothFields(content)) =>
    /\ time_ms # None
    /\ LET sec == FieldInt(content, "start_time_sec")
           nsec == FieldInt(content, "start_time_nsec")
       IN /\ time_ms[1] \div NsPerMs = sec * 1000 + nsec \div NsPerMs
          /\ time_ms[1] % NsPerMs = nsec % NsPerMs

\* sec=1, nsec=500000 parsed to 1000.5 ms.
C1_Witness ==
  /\ pc = "parsed"
  /\ content = TimingFile(<<"1">>, <<"5", "0", "0", "0", "0", "0">>)
  /\ time_ms = Some(1000500000)

\* The files of exp_dir, among its first n, that hold both fields.
BothFieldFiles(n) == {i \in 1..n : HasBothFields(exp_dir[i])}

\* C2: parse_timing_file returns None for a file lacking a field, the loop
\* of analyze_experiment skips it and goes on: after each turn times_ms holds
\* one time per both-field file read so far, every file is read before the
\* return, and the returned count is the number of both-field files.
C2_SkipsFilesLackingAField ==
  (pc \in {"glob", "returned"}) =>
    /\ \A i \in 1..Len(exp_dir) :
         ~HasBothFields(exp_dir[i]) => parse_timing_file(exp_dir[i]) = None
    /\ Len(times_ms) = Cardinality(BothFieldFiles(idx))
    /\ (pc = "returned") =>
         /\ idx = Len(exp_dir)
         /\ (stats = None) <=> (BothFieldFiles(Len(exp_dir)) = {})
         /\ stats # None =>
              stats[1].count = Cardinality(BothFieldFiles(Len(exp_dir)))

\* A file without the nsec field came first, a complete file after it, and
\* the experiment was returned with count 1.
C2_Witness ==
  /\ pc = "returned"
  /\ Len(exp_dir) = 2
  /\ ~HasField(exp_dir[1], "start_time_nsec")
  /\ HasBothFields(exp_dir[2])
  /\ stats # None
  /\ stats[1].count = 1

\* The parsed times of exp_dir, as the set of its both-field files' times.
ParsedTimes ==
  {time_ms_of(FieldInt(exp_dir[i], "start_time_sec"),
              FieldInt(exp_dir[i], "start_time_nsec")) :
     i \in BothFieldFiles(Len(exp_dir))}

Smallest(S) == CHOOSE x \in S : \A y \in S : x <= y
Largest(S) == CHOOSE x \in S : \A y \in S : x >= y

\* C4: the returned stats have min and max the smallest and the largest
\* parsed time and max_spread = max - min, which is never negative and is 0
\* when all the times are equal (a single time included).
C4_SpreadIsMaxMinusMin ==
  (pc = "returned" /\ stats # None) =>
    /\ stats[1].min = Smallest(ParsedTimes)
    /\ stats[1].max = Largest(ParsedTimes)
    /\ stats[1].max_spread = Largest(ParsedTimes) - Smallest(ParsedTimes)
    /\ stats[1].max_spread >= 0
    /\ (Cardinality(ParsedTimes) = 1) => stats[1].max_spread = 0

\* Three distinct times met in an order that is not sorted; the spread is 35.
C4_Witness ==
  /\ pc = "returned"
  /\ stats # None
  /\ stats[1].times_ms = <<9, 40, 5>>
  /\ stats[1].max_spread = 35

RECURSIVE SumOfSquares(_)
SumOfSquares(xs) ==
  IF xs = <<>> THEN 0 ELSE xs[1] * xs[1] + SumOfSquares(Tail(xs))

\* The sample variance of xs with Bessel's correction: the sum of the squared
\* deviations from the mean over n-1, that is (n*sum(x^2) - sum(x)^2) over
\* n*(n-1); with n = 1 it is 0/0.
SampleVariance(xs) ==
  LET n == Len(xs)
  IN IF n - 1 = 0 THEN NaN
     ELSE Frac(n * SumOfSquares(xs) - umr_sum(xs) * umr_sum(xs), n * (n - 1))

\* C5: the std of a returned experiment is the sample standard deviation
\* (ddof=1) of its n parsed times: its square is the sum of the squared
\* deviations from the mean divided by n-1.
C5_StdIsSampleStd ==
  (pc = "returned" /\ stats # None) =>
    stats[1].std = SampleVariance(stats[1].times_ms)

\* Times 5, 9, 40 ns: mean 18, squared deviations 169 + 81 + 484 = 734,
\* variance 734/2 = 367.
C5_Witness ==
  /\ pc = "returned"
  /\ stats # None
  /\ stats[1].times_ms = <<5, 9, 40>>
  /\ stats[1].std = [nan |-> FALSE, num |-> 367, den |-> 1]

\* The stats the reports show, the list of times left out.
Shown(st) ==
  [count |-> st.count, min |-> st.min, max |-> st.max,
   max_spread |-> st.max_spread, std |-> st.std]

\* C10 as claimed: two glob orders of the same files give identical count,
\* min, max, max_spread and std.
C10_StatsIgnoreGlobOrder ==
  (pc = "returned") =>
    /\ (stats = None) <=> (stats_reordered = None)
    /\ stats # None => Shown(stats[1]) = Shown(stats_reordered[1])

\* C10 amended: two glob orders of the same files give identical count, min,
\* max and max_spread (the std is summed in glob order and its last bits
\* may differ).
C10_CountMinMaxSpreadIgnoreGlobOrder ==
  (pc = "returned") =>
    /\ (stats = None) <=> (stats_reordered = None)
    /\ stats # None =>
         /\ stats[1].count = stats_reordered[1].count
         /\ stats[1].min = stats_reordered[1].min
         /\ stats[1].max = stats_reordered[1].max
         /\ stats[1].max_spread = stats_reordered[1].max_spread

\* Three distinct times were read in two different orders.
C10_Witness ==
  /\ pc = "returned"
  /\ stats # None
  /\ stats[1].count = 3
  /\ stats[1].max_spread > 0
  /\ stats[1].times_ms # stats_reordered[1].times_ms

(* ------------------------- claims about main() ------------------------- *)
Recorded(g, e) ==
  g \in DOMAIN all_experiments /\ e \in DOMAIN all_experiments[g]

InIndividual(g, e) ==
  \E i \in 1..Len(individual) :
    /\ individual[i].group = g
    /\ \E j \in 1..Len(individual[i].exps) : individual[i].exps[j].exp = e

\* The exp* directories of group g met so far with a parseable file.
ParseableExps(g) == {w \in walked : w.group = g /\ w.parseable > 0}

\* C3: an experiment with zero parseable timing files gets None from
\* analyze_experiment, is never recorded, never appears in
\* individual_experiment_stats.txt, and every box-plot series and every
\* experiment count of summary_stats.txt counts the parseable experiments only.
C3_ZeroParseableExcluded ==
  /\ \A files \in WalkDirs :
       BothFieldCount(files) = 0 => analyze_experiment(files) = None
  /\ \A w \in walked :
       w.parseable = 0 => ~Recorded(w.group, w.exp) /\ ~InIndividual(w.group, w.exp)
  /\ \A i \in 1..Len(individual) :
       Len(individual[i].exps) = Cardinality(ParseableExps(individual[i].group))
  /\ \A i \in 1..Len(spread_data) :
       Len(spread_data[i]) = Cardinality(ParseableExps(labels[i]))
  /\ \A i \in 1..Len(std_data) :
       Len(std_data[i]) = Cardinality(ParseableExps(labels[i]))
  /\ \A i \in 1..Len(summary) :
       summary[i].n = Cardinality(ParseableExps(summary[i].group))

\* A run completed in which a group held an experiment without a parseable
\* file beside one with parseable files.
C3_Witness ==
  /\ pc = "done"
  /\ \E w \in walked, v \in walked :
       w.group = v.group /\ w.parseable = 0 /\ v.parseable > 0

\* C9: every key of all_experiments maps to at least one experiment and
\* every recorded experiment has count >= 1; a group without a parseable
\* experiment is never a key; no box-plot series and no summary is computed
\* over an empty list, and the summary's experiment count is the number of the
\* group's exp* directories with a parseable file.
C9_NoEmptyGroup ==
  /\ \A g \in DOMAIN all_experiments :
       /\ DOMAIN all_experiments[g] # {}
       /\ \A e \in DOMAIN all_experiments[g] : all_experiments[g][e].count >= 1
  /\ \A g \in 1..n_groups : ParseableExps(g) = {} => g \notin DOMAIN all_experiments
  /\ \A i \in 1..Len(spread_data) : spread_data[i] # <<>>
  /\ \A i \in 1..Len(std_data) : std_data[i] # <<>>
  /\ \A i \in 1..Len(summary) :
       /\ summary[i].n >= 1
       /\ summary[i].n = Cardinality(ParseableExps(summary[i].group))

\* A run completed in which the first group held an exp* directory but no
\* parseable file, and only the second group is a key.
C9_Witness ==
  /\ pc = "done"
  /\ \E w \in walked : w.group = 1
  /\ ParseableExps(1) = {}
  /\ DOMAIN all_experiments = {2}
  /\ Len(summary) = 1

AllOutputs ==
  <<"individual_experiment_stats.txt", "max_spread_boxplot.png",
    "std_boxplot.png", "summary_stats.txt">>

\* C6 as claimed: no run of main raises, whatever the input, and a run that
\* is over has written its reports.
C6_NoFatalError ==
  /\ pc # "error"
  /\ raised = ""
  /\ pc = "done" => outputs = AllOutputs

\* C7 as claimed: nothing is written before the walk is over, the outputs
\* come in the fixed order, and a run that has ended has emitted the four of
\* them, once each.
C7_AllOutputsOnceInOrder ==
  /\ outputs # <<>> => pc \notin {"start", "groups", "exps"}
  /\ Len(outputs) <= Len(AllOutputs)
  /\ outputs = SubSeq(AllOutputs, 1, Len(outputs))
  /\ (pc \in {"done", "error"}) => outputs = AllOutputs

\* C8 as claimed: every recorded experiment has a defined, finite std, and
\* the std statistics of summary_stats.txt are computed over defined numbers.
C8_StdDefined ==
  /\ \A g \in DOMAIN all_experiments : \A e \in DOMAIN all_experiments[g] :
       ~all_experiments[g][e].std.nan /\ all_experiments[g][e].std.den > 0
  /\ \A i \in 1..Len(summary) : ~summary[i].std_nan

====
